---- MODULE Spec2Model ----
(***************************************************************************)
(* A model of SUPIR/util.py: the checkpoint loader, the model builder and  *)
(* the image-size arithmetic of the image <-> tensor conversions.          *)
(*                                                                         *)
(* Python floats are modelled as exact non-negative rationals [n, d].      *)
(* The quotients min_size / min(w, h), fix_resize / min(w, h) and the      *)
(* products with them are idealised: the model has no rounding error.      *)
(***************************************************************************)
EXTENDS Integers, Sequences, FiniteSets, TLC

VARIABLES
    \* PIL2Tensor: arguments, program position, locals, returned value
    pil_args, pil_pc, w, h, w0, h0, pre, pil_ret,
    \* upscale_image, fix_resize: the input array and the last call's outcome
    input_image, rz_out,
    \* HWC3: the argument array and the call's outcome
    x, y,
    \* load_state_dict: the path, what the file holds, the call's outcome
    ckpt_path, ckpt_file, lsd_ret,
    \* create_SUPIR_model: arguments, the files on disk, CUDA availability,
    \* program position, locals, the printt log, the trace of calls made, and
    \* the returned value
    csm_args, fs, cuda, csm_pc, config, model, log, events, csm_ret

pilVars == <<pil_args, pil_pc, w, h, w0, h0, pre, pil_ret>>
rzVars == <<input_image, rz_out>>

hwcVars == <<x, y>>

lsdVars == <<ckpt_path, ckpt_file, lsd_ret>>

csmVars == <<csm_args, fs, cuda, csm_pc, config, model, log, events, csm_ret>>

vars == <<pilVars, rzVars, hwcVars, lsdVars, csmVars>>

\* What the operations of one function leave alone: the other functions' state.
notPil == <<rzVars, hwcVars, lsdVars, csmVars>>
notRz == <<pilVars, hwcVars, lsdVars, csmVars>>
notHwc == <<pilVars, rzVars, lsdVars, csmVars>>
notLsd == <<pilVars, rzVars, hwcVars, csmVars>>
notCsm == <<pilVars, rzVars, hwcVars, lsdVars>>

----------------------------------------------------------------------------
(* Bounds of the model. *)

MaxSideK == 6
MaxUpscaleHalves == 4
MaxPixels == 2
MaxWrap == 2

----------------------------------------------------------------------------
(* Numbers. *)

\* Python's None for an optional numeric argument.
None == -1

RECURSIVE GCD(_, _)
GCD(a, b) == IF b = 0 THEN a ELSE GCD(b, a % b)

\* The float n / d, for n >= 0 and d > 0.
Rat(n, d) == LET g == GCD(n, d) IN [n |-> n \div g, d |-> d \div g]

RMul(a, b) == Rat(a.n * b.n, a.d * b.d)

\* a / b for b # 0 (the callers raise ZeroDivisionError on b = 0).
RDiv(a, b) == Rat(a.n * b.d, a.d * b.n)

RLt(a, b) == a.n * b.d < b.n * a.d

\* Python's min(a, b): b only when it is strictly smaller.
RMin(a, b) == IF RLt(b, a) THEN b ELSE a

\* Rounding as truncation.
round_floor(v) == v.n \div v.d

\* Python 3's round(v) and numpy's np.round(v): to nearest, ties to even.
round(v) ==
    LET q == v.n \div v.d
        r == v.n % v.d
    IN  IF 2 * r < v.d THEN q
        ELSE IF 2 * r > v.d THEN q + 1
        ELSE IF q % 2 = 0 THEN q ELSE q + 1

\* Quantize with the multiplication by the unit forgotten.
Quantize_nounit(v, unit) == round(RDiv(v, Rat(unit, 1)))

\* int(np.round(v / unit)) * unit
Quantize(v, unit) == round(RDiv(v, Rat(unit, 1))) * unit

----------------------------------------------------------------------------
(* PIL2Tensor(img, upsacle, min_size, fix_resize), util.py lines 71-95.    *)

ImgSides == {1, 100} \cup {96 * k : k \in 1..MaxSideK}
UpsacleVals == {Rat(k, 2) : k \in 0..MaxUpscaleHalves}
MinSizes == {0, 512, 1024}
FixResizes == {None, 0, 512, 1536}

PilArgs ==
    [img : [w : ImgSides, h : ImgSides], upsacle : UpsacleVals,
     min_size : MinSizes, fix_resize : FixResizes]

Zero == Rat(0, 1)

\* The state of PIL2Tensor before a call.
PilIdle ==
    /\ pil_args = [img |-> [w |-> 1, h |-> 1], upsacle |-> Rat(1, 1),
                   min_size |-> 1024, fix_resize |-> None]
    /\ pil_pc = "idle"
    /\ w = Zero /\ h = Zero
    /\ w0 = 0 /\ h0 = 0
    /\ pre = [w |-> Zero, h |-> Zero]
    /\ pil_ret = [status |-> "none"]

PilInit ==
    /\ pil_args \in PilArgs
    /\ pil_pc = "size"
    /\ w = Zero /\ h = Zero
    /\ w0 = 0 /\ h0 = 0
    /\ pre = [w |-> Zero, h |-> Zero]
    /\ pil_ret = [status |-> "none"]

\* lines 76-79: w, h = img.size; w *= upsacle; h *= upsacle; w0, h0 = round
PIL2Tensor_size ==
    /\ pil_pc = "size"
    /\ LET nw == RMul(Rat(pil_args.img.w, 1), pil_args.upsacle)
           nh == RMul(Rat(pil_args.img.h, 1), pil_args.upsacle)
       IN  /\ w' = nw /\ h' = nh
           /\ w0' = round(nw) /\ h0' = round(nh)
    /\ pil_pc' = "min_size"
    /\ UNCHANGED <<pil_args, pre, pil_ret>>
    /\ UNCHANGED notPil

\* lines 80-83: upscale so that the shorter side reaches min_size
PIL2Tensor_min_size ==
    /\ pil_pc = "min_size"
    /\ LET m == RMin(w, h)
           ms == Rat(pil_args.min_size, 1)
       IN  IF RLt(m, ms)
           THEN IF m.n = 0
                THEN /\ pil_pc' = "raised"
                     /\ pil_ret' = [status |-> "ZeroDivisionError"]
                     /\ UNCHANGED <<w, h>>
                ELSE /\ w' = RMul(w, RDiv(ms, m))
                     /\ h' = RMul(h, RDiv(ms, m))
                     /\ pil_pc' = "fix_resize"
                     /\ UNCHANGED pil_ret
           ELSE /\ pil_pc' = "fix_resize"
                /\ UNCHANGED <<w, h, pil_ret>>
    /\ UNCHANGED <<pil_args, w0, h0, pre>>
    /\ UNCHANGED notPil

\* The fix_resize step without line 88: w0, h0 are not retaken.
PIL2Tensor_fix_resize_keep ==
    /\ pil_pc = "fix_resize"
    /\ IF pil_args.fix_resize # None
       THEN LET m == RMin(w, h)
                fr == Rat(pil_args.fix_resize, 1)
            IN  IF m.n = 0
                THEN /\ pil_pc' = "raised"
                     /\ pil_ret' = [status |-> "ZeroDivisionError"]
                     /\ UNCHANGED <<w, h>>
                ELSE /\ w' = RMul(w, RDiv(fr, m))
                     /\ h' = RMul(h, RDiv(fr, m))
                     /\ pil_pc' = "quantize"
                     /\ UNCHANGED pil_ret
       ELSE /\ pil_pc' = "quantize"
            /\ UNCHANGED <<w, h, pil_ret>>
    /\ UNCHANGED <<pil_args, w0, h0, pre>>
    /\ UNCHANGED notPil

\* The fix_resize step as a second minimum: it only ever enlarges.
PIL2Tensor_fix_resize_asmin ==
    /\ pil_pc = "fix_resize"
    /\ IF pil_args.fix_resize # None
          /\ RLt(RMin(w, h), Rat(pil_args.fix_resize, 1))
       THEN LET m == RMin(w, h)
                fr == Rat(pil_args.fix_resize, 1)
            IN  IF m.n = 0
                THEN /\ pil_pc' = "raised"
                     /\ pil_ret' = [status |-> "ZeroDivisionError"]
                     /\ UNCHANGED <<w, h, w0, h0>>
                ELSE LET nw == RMul(w, RDiv(fr, m))
                         nh == RMul(h, RDiv(fr, m))
                     IN  /\ w' = nw /\ h' = nh
                         /\ w0' = round(nw) /\ h0' = round(nh)
                         /\ pil_pc' = "quantize"
                         /\ UNCHANGED pil_ret
       ELSE /\ pil_pc' = "quantize"
            /\ UNCHANGED <<w, h, w0, h0, pil_ret>>
    /\ UNCHANGED <<pil_args, pre>>
    /\ UNCHANGED notPil

\* lines 84-88: force the shorter side to fix_resize and retake w0, h0
PIL2Tensor_fix_resize ==
    /\ pil_pc = "fix_resize"
    /\ IF pil_args.fix_resize # None
       THEN LET m == RMin(w, h)
                fr == Rat(pil_args.fix_resize, 1)
            IN  IF m.n = 0
                THEN /\ pil_pc' = "raised"
                     /\ pil_ret' = [status |-> "ZeroDivisionError"]
                     /\ UNCHANGED <<w, h, w0, h0>>
                ELSE LET nw == RMul(w, RDiv(fr, m))
                         nh == RMul(h, RDiv(fr, m))
                     IN  /\ w' = nw /\ h' = nh
                         /\ w0' = round(nw) /\ h0' = round(nh)
                         /\ pil_pc' = "quantize"
                         /\ UNCHANGED pil_ret
       ELSE /\ pil_pc' = "quantize"
            /\ UNCHANGED <<w, h, w0, h0, pil_ret>>
    /\ UNCHANGED <<pil_args, pre>>
    /\ UNCHANGED notPil

\* lines 89-90: round both sides to multiples of 64; pre keeps the size
\* that is rounded
PIL2Tensor_quantize ==
    /\ pil_pc = "quantize"
    /\ pre' = [w |-> w, h |-> h]
    /\ w' = Rat(Quantize(w, 64), 1)
    /\ h' = Rat(Quantize(h, 64), 1)
    /\ pil_pc' = "resize"
    /\ UNCHANGED <<pil_args, w0, h0, pil_ret>>
    /\ UNCHANGED notPil

\* lines 91-95: img.resize((w, h)) fails on an empty size; otherwise the
\* tensor [C, H, W] is returned with h0, w0
PIL2Tensor_resize ==
    /\ pil_pc = "resize"
    /\ IF w.n = 0 \/ h.n = 0
       THEN /\ pil_pc' = "raised"
            /\ pil_ret' = [status |-> "ValueError"]
       ELSE /\ pil_pc' = "returned"
            /\ pil_ret' = [status |-> "ok", shape |-> <<3, h.n, w.n>>,
                           h0 |-> h0, w0 |-> w0]
    /\ UNCHANGED <<pil_args, w, h, w0, h0, pre>>
    /\ UNCHANGED notPil

PilNext ==
    \/ PIL2Tensor_size
    \/ PIL2Tensor_min_size
    \/ PIL2Tensor_fix_resize
    \/ PIL2Tensor_quantize
    \/ PIL2Tensor_resize

----------------------------------------------------------------------------
(* upscale_image and fix_resize, util.py lines 127-156.                    *)

RzSides == ImgSides \cup {200}
UpscaleVals == UpsacleVals \cup {Rat(11, 10)}
RzMinSizes == {None, 512}
Units == {16, 64}
FixSizes == {0, 96, 220, 512}

One == Rat(1, 1)

\* The interpolation choice with the comparison made non-strict.
Interpolation_ge(upscale) ==
    IF ~RLt(upscale, One) THEN "INTER_LANCZOS4" ELSE "INTER_AREA"

\* lines 140, 154: cv2.INTER_LANCZOS4 if upscale > 1 else cv2.INTER_AREA
Interpolation(upscale) ==
    IF RLt(One, upscale) THEN "INTER_LANCZOS4" ELSE "INTER_AREA"

\* lines 138-142, 152-156: round H and W to multiples of unit_resolution and
\* resize; cv2.resize fails on an empty size
ResizeTo(fn, H, W, upscale, unit_resolution) ==
    LET qH == Quantize(H, unit_resolution)
        qW == Quantize(W, unit_resolution)
    IN  IF qH = 0 \/ qW = 0
        THEN [fn |-> fn, status |-> "cv2.error", H |-> qH, W |-> qW,
              interpolation |-> Interpolation(upscale), upscale |-> upscale]
        ELSE [fn |-> fn, status |-> "ok", H |-> qH, W |-> qW,
              interpolation |-> Interpolation(upscale), upscale |-> upscale]

RzRaise(fn, err, upscale) ==
    [fn |-> fn, status |-> err, H |-> 0, W |-> 0,
     interpolation |-> "none", upscale |-> upscale]

\* lines 127-142
UpscaleImage(img, upscale, min_size, unit_resolution) ==
    LET H == RMul(Rat(img.H, 1), upscale)
        W == RMul(Rat(img.W, 1), upscale)
        m == RMin(H, W)
    IN  IF min_size # None /\ RLt(m, Rat(min_size, 1))
        THEN IF m.n = 0
             THEN RzRaise("upscale_image", "ZeroDivisionError", upscale)
             ELSE LET _upsacle == RDiv(Rat(min_size, 1), RMin(W, H))
                  IN  ResizeTo("upscale_image", RMul(H, _upsacle),
                               RMul(W, _upsacle), upscale, unit_resolution)
        ELSE ResizeTo("upscale_image", H, W, upscale, unit_resolution)

\* lines 145-156
FixResize(img, size, unit_resolution) ==
    LET upscale == RDiv(Rat(size, 1), RMin(Rat(img.H, 1), Rat(img.W, 1)))
    IN  ResizeTo("fix_resize", RMul(Rat(img.H, 1), upscale),
                 RMul(Rat(img.W, 1), upscale), upscale, unit_resolution)

RzIdle ==
    /\ input_image = [H |-> 1, W |-> 1]
    /\ rz_out = [fn |-> "none"]

RzInit ==
    /\ input_image \in [H : RzSides, W : RzSides]
    /\ rz_out = [fn |-> "none"]

upscale_image ==
    /\ rz_out.fn = "none"
    /\ \E upscale \in UpscaleVals, min_size \in RzMinSizes,
          unit_resolution \in Units :
          rz_out' = [call |-> [min_size |-> min_size, size |-> None,
                               unit_resolution |-> unit_resolution]]
                    @@ UpscaleImage(input_image, upscale, min_size,
                                    unit_resolution)
    /\ UNCHANGED input_image
    /\ UNCHANGED notRz

fix_resize ==
    /\ rz_out.fn = "none"
    /\ \E size \in FixSizes, unit_resolution \in Units :
          rz_out' = [call |-> [min_size |-> None, size |-> size,
                               unit_resolution |-> unit_resolution]]
                    @@ FixResize(input_image, size, unit_resolution)
    /\ UNCHANGED input_image
    /\ UNCHANGED notRz

RzNext ==
    \/ upscale_image
    \/ fix_resize

----------------------------------------------------------------------------
(* HWC3, util.py lines 108-124.  An array is its dtype, ndim, shape        *)
(* (H, W, C; C = 1 for ndim = 2) and its pixels in row-major order, each a *)
(* sequence of C samples.                                                  *)

ChanVals == {7, 255}
AlphaVals == {0, 128, 255}
Channels == {1, 2, 3, 4}

Shapes == {hw \in (1..MaxPixels) \X (1..MaxPixels) : hw[1] * hw[2] <= MaxPixels}

PixelsOf(C) ==
    IF C = 4
    THEN {<<r, g, b, a>> : r \in ChanVals, g \in ChanVals, b \in ChanVals,
                           a \in AlphaVals}
    ELSE [1..C -> ChanVals]

\* Compositing over a black background instead of a white one.
Blend_black(c, a) ==
    LET num == c * a
    IN  IF num % 255 = 0 /\ a # 0 /\ a # 255
        THEN {num \div 255, num \div 255 - 1} \cap (0..255)
        ELSE {num \div 255}

\* lines 120-123, one sample: color * alpha + 255.0 * (1.0 - alpha) with
\* alpha = a / 255.0 in float32, clipped to [0, 255] and truncated to uint8.
\* The float32 result is exact for a = 0 and a = 255; elsewhere it lies
\* within rounding error of the exact value, so when that value is an
\* integer k the truncation yields k or k - 1.
Blend(c, a) ==
    LET num == c * a + 255 * (255 - a)
    IN  IF num % 255 = 0 /\ a # 0 /\ a # 255
        THEN {num \div 255, num \div 255 - 1} \cap (0..255)
        ELSE {num \div 255}

PixelOutcomes(p) ==
    {<<r, g, b>> : r \in Blend(p[1], p[4]), g \in Blend(p[2], p[4]),
                   b \in Blend(p[3], p[4])}

\* The pixel sequences the blend can give for the first n pixels of px.
RECURSIVE BlendAll(_, _)
BlendAll(px, n) ==
    IF n = 0 THEN {<<>>}
    ELSE {Append(s, p) : s \in BlendAll(px, n - 1), p \in PixelOutcomes(px[n])}

\* lines 108-124: the set of arrays HWC3(a) can return, or the failure
HWC3(a) ==
    IF a.dtype # "uint8" THEN {[status |-> "AssertionError"]}
    ELSE IF a.ndim \notin {2, 3} THEN {[status |-> "AssertionError"]}
    ELSE IF a.C \notin {1, 3, 4} THEN {[status |-> "AssertionError"]}
    ELSE IF a.C = 3 THEN {[status |-> "ok", arr |-> a]}
    ELSE IF a.C = 1
    THEN {[status |-> "ok",
           arr |-> [dtype |-> "uint8", ndim |-> 3, H |-> a.H, W |-> a.W, C |-> 3,
                    px |-> [i \in DOMAIN a.px |->
                              <<a.px[i][1], a.px[i][1], a.px[i][1]>>]]]}
    ELSE {[status |-> "ok",
           arr |-> [dtype |-> "uint8", ndim |-> 3, H |-> a.H, W |-> a.W, C |-> 3,
                    px |-> f]] :
            f \in BlendAll(a.px, Len(a.px))}

HwcIdle ==
    /\ x = [dtype |-> "uint8", ndim |-> 3, H |-> 1, W |-> 1, C |-> 3,
            px |-> <<<<255, 255, 255>>>>]
    /\ y = [status |-> "none"]

\* Every array of a shape in Shapes: C in 1..4, ndim = 2 for some of the
\* single-channel ones, and a dtype other than uint8 for some.
HwcInit ==
    /\ \E hw \in Shapes, C \in Channels :
         \E px \in [1..(hw[1] * hw[2]) -> PixelsOf(C)],
            dt \in IF C = 4 THEN {"uint8"} ELSE {"uint8", "float32"},
            nd \in IF C = 1 THEN {2, 3} ELSE {3} :
            x = [dtype |-> dt, ndim |-> nd, H |-> hw[1], W |-> hw[2],
                 C |-> C, px |-> px]
    /\ y = [status |-> "none"]

HWC3_call ==
    /\ y.status = "none"
    /\ y' \in HWC3(x)
    /\ UNCHANGED x
    /\ UNCHANGED notHwc

HwcNext == HWC3_call

----------------------------------------------------------------------------
(* get_state_dict and load_state_dict, util.py lines 14-27.  A checkpoint  *)
(* value is a tensor or a dict from names to values; a path is its stem    *)
(* and its extension.                                                      *)

Tensor(id) == [kind |-> "tensor", id |-> id]
Dict(items) == [kind |-> "dict", items |-> items]
Raised(err) == [kind |-> "error", id |-> err]

\* line 15: d.get('state_dict', d); a tensor has no get
get_state_dict(d) ==
    IF d.kind # "dict" THEN Raised("AttributeError")
    ELSE IF "state_dict" \in DOMAIN d.items THEN d.items["state_dict"]
    ELSE d

\* line 19: os.path.splitext(ckpt_path)
splitext(path) == <<path.stem, path.ext>>

\* line 20: extension.lower()
lower(ext) ==
    CASE ext = ".SAFETENSORS" -> ".safetensors"
      [] ext = ".SafeTensors" -> ".safetensors"
      [] ext = ".CKPT" -> ".ckpt"
      [] OTHER -> ext

\* lines 18-27: content is what safetensors.torch.load_file, or torch.load,
\* reads from the file at ckpt_path
load_state_dict(path, content, location) ==
    LET extension == splitext(path)[2]
        state_dict == IF lower(extension) = ".safetensors"
                      THEN content
                      ELSE get_state_dict(content)
        result == IF state_dict.kind = "error" THEN state_dict
                  ELSE get_state_dict(state_dict)
    IN  IF result.kind = "error"
        THEN [status |-> result.id]
        ELSE [status |-> "ok", state_dict |-> result, device |-> location,
              printed |-> path]

Extensions == {".safetensors", ".SafeTensors", ".ckpt", ".CKPT", ".pth"}
TensorIds == {"t1", "t2"}
Names == {"weight", "state_dict"}

\* The flat name-to-array mappings.
FlatMaps ==
    UNION {{Dict(f) : f \in [S -> {Tensor(t) : t \in TensorIds}]} :
             S \in (SUBSET Names) \ {{}}}

\* One level of wrapper, alone or beside another field.
Wrappings(vs) ==
    {Dict([state_dict |-> v]) : v \in vs}
    \cup {Dict([state_dict |-> v, epoch |-> Tensor("t1")]) : v \in vs}

RECURSIVE Wrapped(_)
Wrapped(k) == IF k = 0 THEN FlatMaps ELSE Wrappings(Wrapped(k - 1))

\* What torch.load can deliver: a mapping under at most MaxWrap wrappers.
Containers == UNION {Wrapped(k) : k \in 0..MaxWrap}

IsSafetensors(path) == lower(path.ext) = ".safetensors"

LsdIdle ==
    /\ ckpt_path = [stem |-> "", ext |-> ""]
    /\ ckpt_file = Dict([weight |-> Tensor("t1")])
    /\ lsd_ret = [status |-> "none"]

LsdInit ==
    /\ ckpt_path \in [stem : {"model"}, ext : Extensions]
    /\ ckpt_file \in IF IsSafetensors(ckpt_path) THEN FlatMaps ELSE Containers
    /\ lsd_ret = [status |-> "none"]

load_state_dict_call ==
    /\ lsd_ret.status = "none"
    /\ \E location \in {"cpu", "cuda"} :
          lsd_ret' = load_state_dict(ckpt_path, ckpt_file, location)
    /\ UNCHANGED <<ckpt_path, ckpt_file>>
    /\ UNCHANGED notLsd

LsdNext == load_state_dict_call

----------------------------------------------------------------------------
(* create_SUPIR_model, util.py lines 30-68.                                *)

\* None, or the empty string: the falsy path.
NoPath == [stem |-> "", ext |-> ""]

ConfigPath == [stem |-> "options/SUPIR_v0", ext |-> ".yaml"]
SdxlPath == [stem |-> "models/sd_xl_base", ext |-> ".safetensors"]
CustomPath == [stem |-> "models/custom", ext |-> ".ckpt"]

\* line 62: abspath(join(dirname(__file__), "..", "models", f"v0{sign}.ckpt"))
AuxPath(supir_sign) ==
    [stem |-> CASE supir_sign = "F" -> "models/v0F"
                [] supir_sign = "Q" -> "models/v0Q"
                [] OTHER -> "models/v0?",
     ext |-> ".ckpt"]

\* What each checkpoint file holds when it exists.
FileContent(path) ==
    CASE path = SdxlPath ->
           Dict([weight |-> Tensor("sdxl_weight"), bias |-> Tensor("sdxl_bias")])
      [] path = CustomPath ->
           Dict([state_dict |->
                   Dict([weight |-> Tensor("custom_weight"),
                         bias |-> Tensor("custom_bias"),
                         unused |-> Tensor("custom_unused")])])
      [] path = AuxPath("F") -> Dict([weight |-> Tensor("v0F_weight")])
      [] OTHER -> Dict([weight |-> Tensor("v0Q_weight")])

CkptPaths == {SdxlPath, CustomPath, AuxPath("F"), AuxPath("Q")}

\* The model's parameters.
Params == {"weight", "bias", "control"}

\* supir_sign: "" stands for None and the empty string.
Signs == {"", "F", "Q", "X"}

CsmArgs ==
    [config_path : {ConfigPath}, supir_sign : Signs, device : {"cpu"},
     ckpt : {NoPath, CustomPath}, sampler : {"DPMPP2M", "EDM"}]

NoModel == [instantiated |-> FALSE]

CsmIdle ==
    /\ csm_args = [config_path |-> ConfigPath, supir_sign |-> "", device |-> "cpu",
                   ckpt |-> NoPath, sampler |-> "DPMPP2M"]
    /\ fs = [p \in {ConfigPath} |-> [target |-> "EDMSampler", SDXL_CKPT |-> NoPath]]
    /\ cuda = FALSE
    /\ csm_pc = "idle"
    /\ config = [loaded |-> FALSE]
    /\ model = NoModel
    /\ log = <<>>
    /\ events = <<>>
    /\ csm_ret = [status |-> "none"]

\* The configuration file exists; each checkpoint file may or may not.
CsmInit ==
    /\ csm_args \in CsmArgs
    /\ \E present \in SUBSET CkptPaths, sdxl \in {NoPath, SdxlPath} :
          fs = [p \in present \cup {ConfigPath} |->
                  IF p = ConfigPath
                  THEN [target |-> "EDMSampler", SDXL_CKPT |-> sdxl]
                  ELSE FileContent(p)]
    /\ cuda \in BOOLEAN
    /\ csm_pc = "load_config"
    /\ config = [loaded |-> FALSE]
    /\ model = NoModel
    /\ log = <<>>
    /\ events = <<>>
    /\ csm_ret = [status |-> "none"]

Event(op, of) == [op |-> op, of |-> of]
Line(msg, path) == [msg |-> msg, path |-> path]

\* line 32: config = OmegaConf.load(config_path)
csm_load_config ==
    /\ csm_pc = "load_config"
    /\ config' = [loaded |-> TRUE, target |-> fs[csm_args.config_path].target,
                  SDXL_CKPT |-> fs[csm_args.config_path].SDXL_CKPT]
    /\ events' = Append(events, Event("OmegaConf.load", csm_args.config_path))
    /\ csm_pc' = "set_target"
    /\ UNCHANGED <<csm_args, fs, cuda, model, log, csm_ret>>
    /\ UNCHANGED notCsm

\* line 33: config.model.params.sampler_config.target = sampler
csm_set_target ==
    /\ csm_pc = "set_target"
    /\ config' = [config EXCEPT !.target = csm_args.sampler]
    /\ events' = Append(events, Event("set_target", NoPath))
    /\ csm_pc' = "set_ckpt"
    /\ UNCHANGED <<csm_args, fs, cuda, model, log, csm_ret>>
    /\ UNCHANGED notCsm

\* lines 34-35: if ckpt: config.SDXL_CKPT = ckpt
csm_set_ckpt ==
    /\ csm_pc = "set_ckpt"
    /\ IF csm_args.ckpt # NoPath
       THEN /\ config' = [config EXCEPT !.SDXL_CKPT = csm_args.ckpt]
            /\ events' = Append(events, Event("set_SDXL_CKPT", csm_args.ckpt))
       ELSE UNCHANGED <<config, events>>
    /\ csm_pc' = "instantiate"
    /\ UNCHANGED <<csm_args, fs, cuda, model, log, csm_ret>>
    /\ UNCHANGED notCsm

\* lines 38-40: model = instantiate_from_config(config.model)
csm_instantiate ==
    /\ csm_pc = "instantiate"
    /\ model' = [instantiated |-> TRUE, sampler_target |-> config.target,
                 weights |-> [k \in Params |-> Tensor("init")],
                 sampler |-> "unset"]
    /\ log' = log \o <<Line("Loading model from", csm_args.config_path),
                        Line("Loaded model from", csm_args.config_path)>>
    /\ events' = Append(events, Event("instantiate_from_config", NoPath))
    /\ csm_pc' = "load_primary"
    /\ UNCHANGED <<csm_args, fs, cuda, config, csm_ret>>
    /\ UNCHANGED notCsm

\* line 51: model.load_state_dict(state_dict, strict=False): the keys that
\* name a parameter are taken, the others ignored
ModelLoad(mdl, state_dict) ==
    [mdl EXCEPT !.weights =
        [k \in Params |-> IF k \in DOMAIN state_dict.items
                          THEN state_dict.items[k] ELSE @[k]]]

\* lines 43-54: load_to_device(ckpt_path); of names the call (primary, aux)
load_to_device(path, of, mdl, lg, ev) ==
    LET lg1 == Append(lg, Line("Loading state_dict from", path))
        ev1 == Append(ev, Event("load_to_device", of))
    IN  IF path # NoPath /\ path \in DOMAIN fs
        THEN LET tgt_device == IF cuda THEN "cuda" ELSE "cpu"
                 sd == load_state_dict(path, fs[path], tgt_device)
                 ev2 == ev1 \o <<Event("os.path.exists", of),
                                 Event("load_state_dict", of)>>
             IN  IF sd.status # "ok"
                 THEN [status |-> sd.status, model |-> mdl, log |-> lg1,
                       events |-> ev2]
                 ELSE IF sd.state_dict.kind # "dict"
                 THEN [status |-> "AttributeError", model |-> mdl, log |-> lg1,
                       events |-> ev2]
                 ELSE [status |-> "ok",
                       model |-> ModelLoad(mdl, sd.state_dict),
                       log |-> Append(lg1, Line("Loaded state_dict from", path)),
                       events |-> Append(ev2, Event("model.load_state_dict", of))]
        ELSE [status |-> "ok", model |-> mdl,
              log |-> Append(lg1, Line("No checkpoint found at", path)),
              events |-> IF path # NoPath
                         THEN Append(ev1, Event("os.path.exists", of))
                         ELSE ev1]

\* The effect of one load_to_device call on the state.
LoadStep(path, of, next_pc) ==
    LET r == load_to_device(path, of, model, log, events)
    IN  /\ model' = r.model
        /\ log' = r.log
        /\ events' = r.events
        /\ IF r.status = "ok"
           THEN csm_pc' = next_pc /\ UNCHANGED csm_ret
           ELSE csm_pc' = "raised" /\ csm_ret' = [status |-> r.status]

\* line 57: load_to_device(config.get('SDXL_CKPT'))
csm_load_primary ==
    /\ csm_pc = "load_primary"
    /\ LoadStep(config.SDXL_CKPT, "primary", "sign")
    /\ UNCHANGED <<csm_args, fs, cuda, config>>
    /\ UNCHANGED notCsm

\* The sign check without its assertion.
csm_sign_noassert ==
    /\ csm_pc = "sign"
    /\ csm_pc' = IF csm_args.supir_sign = "" THEN "finish" ELSE "load_aux"
    /\ UNCHANGED <<csm_args, fs, cuda, config, model, log, events, csm_ret>>
    /\ UNCHANGED notCsm

\* lines 60-61: if supir_sign: assert supir_sign in ['F', 'Q']
csm_sign ==
    /\ csm_pc = "sign"
    /\ IF csm_args.supir_sign = ""
       THEN csm_pc' = "finish" /\ UNCHANGED csm_ret
       ELSE IF csm_args.supir_sign \in {"F", "Q"}
       THEN csm_pc' = "load_aux" /\ UNCHANGED csm_ret
       ELSE csm_pc' = "raised" /\ csm_ret' = [status |-> "AssertionError"]
    /\ UNCHANGED <<csm_args, fs, cuda, config, model, log, events>>
    /\ UNCHANGED notCsm

\* lines 62-63: load_to_device(ckpt_path) for the tag-selected checkpoint
csm_load_aux ==
    /\ csm_pc = "load_aux"
    /\ LoadStep(AuxPath(csm_args.supir_sign), "aux", "finish")
    /\ UNCHANGED <<csm_args, fs, cuda, config>>
    /\ UNCHANGED notCsm

\* lines 65-68: model.sampler = sampler; return model
csm_finish ==
    /\ csm_pc = "finish"
    /\ model' = [model EXCEPT !.sampler = csm_args.sampler]
    /\ log' = Append(log, Line("Loaded model config from", csm_args.config_path))
    /\ csm_ret' = [status |-> "ok", model |-> model']
    /\ csm_pc' = "returned"
    /\ UNCHANGED <<csm_args, fs, cuda, config, events>>
    /\ UNCHANGED notCsm

CsmNext ==
    \/ csm_load_config
    \/ csm_set_target
    \/ csm_set_ckpt
    \/ csm_instantiate
    \/ csm_load_primary
    \/ csm_sign
    \/ csm_load_aux
    \/ csm_finish

----------------------------------------------------------------------------
(* Specifications: one per function, the other functions idle.             *)

InitPIL == PilInit /\ RzIdle /\ HwcIdle /\ LsdIdle /\ CsmIdle
SpecPIL == InitPIL /\ [][PilNext]_vars

InitResize == RzInit /\ PilIdle /\ HwcIdle /\ LsdIdle /\ CsmIdle
SpecResize == InitResize /\ [][RzNext]_vars

InitHWC3 == HwcInit /\ PilIdle /\ RzIdle /\ LsdIdle /\ CsmIdle
SpecHWC3 == InitHWC3 /\ [][HwcNext]_vars

InitLoad == LsdInit /\ PilIdle /\ RzIdle /\ HwcIdle /\ CsmIdle
SpecLoad == InitLoad /\ [][LsdNext]_vars

InitModel == CsmInit /\ PilIdle /\ RzIdle /\ HwcIdle /\ LsdIdle
SpecModel == InitModel /\ [][CsmNext]_vars

----------------------------------------------------------------------------
(* PIL2Tensor: C1, C4, C9.                                                 *)

PilReturned == pil_pc = "returned"

IntMin(a, b) == IF b < a THEN b ELSE a

\* C1: whatever the image size, upsacle, min_size and fix_resize, the
\* tensor PIL2Tensor returns has a height and a width divisible by 64.
C1_Divisible64 ==
    PilReturned =>
        /\ pil_ret.shape[2] % 64 = 0
        /\ pil_ret.shape[3] % 64 = 0

\* C1 witness: a call returned a tensor whose sides differ from the image's,
\* for an image whose sides are not multiples of 64.
C1_Witness ==
    /\ PilReturned
    /\ pil_args.img.w % 64 # 0 /\ pil_args.img.h % 64 # 0
    /\ pil_ret.shape[3] # pil_args.img.w
    /\ pil_ret.shape[2] > 0

\* C4 (as claimed): the returned (h0, w0) are the rounded height and width
\* reached after all scaling steps, immediately before the rounding to
\* multiples of 64.
C4_Original ==
    PilReturned =>
        /\ pil_ret.h0 = round(pre.h)
        /\ pil_ret.w0 = round(pre.w)

\* C4 (amended): without fix_resize the returned (h0, w0) are the rounded
\* sides after the upsacle factor alone (the min_size upscale is not part of
\* them); with fix_resize they are the rounded sides reached after all
\* scaling steps, immediately before the rounding to multiples of 64.
C4_TargetDims ==
    PilReturned =>
        IF pil_args.fix_resize = None
        THEN /\ pil_ret.h0 = round(RMul(Rat(pil_args.img.h, 1), pil_args.upsacle))
             /\ pil_ret.w0 = round(RMul(Rat(pil_args.img.w, 1), pil_args.upsacle))
        ELSE /\ pil_ret.h0 = round(pre.h)
             /\ pil_ret.w0 = round(pre.w)

\* C4 witness: a call without fix_resize returned after the min_size step
\* enlarged the image, so (h0, w0) differ from the size that was rounded.
C4_Witness ==
    /\ PilReturned
    /\ pil_args.fix_resize = None
    /\ pil_ret.w0 # round(pre.w)
    /\ pil_ret.h0 # round(pre.h)

\* C9 (as claimed): with fix_resize given, the size that is rounded to
\* multiples of 64 has a shorter side of at least min_size.
C9_Original ==
    (PilReturned /\ pil_args.fix_resize # None) =>
        ~RLt(RMin(pre.w, pre.h), Rat(pil_args.min_size, 1))

\* C9 (amended): with fix_resize given, the forced resize is applied last,
\* after the min_size step, so the size that is rounded to multiples of 64
\* has a shorter side of fix_resize, and min(h0, w0) = fix_resize, whether
\* or not that is below min_size.
C9_FixResizeLast ==
    (PilReturned /\ pil_args.fix_resize # None) =>
        /\ RMin(pre.w, pre.h) = Rat(pil_args.fix_resize, 1)
        /\ IntMin(pil_ret.h0, pil_ret.w0) = pil_args.fix_resize

\* C9 witness: fix_resize = 512 with min_size = 1024 returned with a
\* shorter side of 512 before the rounding.
C9_Witness ==
    /\ PilReturned
    /\ pil_args.fix_resize = 512 /\ pil_args.min_size = 1024
    /\ RMin(pre.w, pre.h) = Rat(512, 1)
    /\ RLt(RMin(RMul(Rat(pil_args.img.w, 1), pil_args.upsacle),
                 RMul(Rat(pil_args.img.h, 1), pil_args.upsacle)), Rat(1024, 1))

----------------------------------------------------------------------------
(* upscale_image, fix_resize: C5, C7.                                      *)

Abs(i) == IF i < 0 THEN -i ELSE i

\* got is a multiple of unit nearest to the rational t, the even multiple
\* on a tie: round(t / unit) * unit.
NearestMultiple(got, t, unit) ==
    /\ got % unit = 0
    /\ 2 * Abs(got * t.d - t.n) <= unit * t.d
    /\ (2 * Abs(got * t.d - t.n) = unit * t.d) => (got \div unit) % 2 = 0

RzPlain ==
    /\ rz_out.fn = "upscale_image"
    /\ rz_out.status = "ok"
    /\ rz_out.call.min_size = None

\* C5: without min_size, upscale_image returns an image whose height and
\* width are the multiples of unit_resolution nearest to H * upscale and
\* W * upscale (ties to the even multiple); 100x100 with upscale = 2 and
\* unit_resolution = 64 gives 192x192.
C5_NearestUnit ==
    RzPlain =>
        /\ NearestMultiple(rz_out.H, RMul(Rat(input_image.H, 1), rz_out.upscale),
                           rz_out.call.unit_resolution)
        /\ NearestMultiple(rz_out.W, RMul(Rat(input_image.W, 1), rz_out.upscale),
                           rz_out.call.unit_resolution)
        /\ (/\ input_image = [H |-> 100, W |-> 100]
            /\ rz_out.upscale = Rat(2, 1)
            /\ rz_out.call.unit_resolution = 64)
           => (rz_out.H = 192 /\ rz_out.W = 192)

\* C5 witness: the 100x100, upscale = 2, unit_resolution = 64 call returned
\* a 192x192 image.
C5_Witness ==
    /\ RzPlain
    /\ input_image = [H |-> 100, W |-> 100]
    /\ rz_out.upscale = Rat(2, 1)
    /\ rz_out.call.unit_resolution = 64
    /\ rz_out.H = 192 /\ rz_out.W = 192

RzEnlarged == rz_out.H > input_image.H /\ rz_out.W > input_image.W
RzShrunk == rz_out.H < input_image.H /\ rz_out.W < input_image.W

RzDone == rz_out.fn # "none" /\ rz_out.status = "ok"

\* C7 (as claimed): Lanczos whenever the output is larger than the input,
\* area-average whenever it is smaller.
C7_Original ==
    RzDone =>
        /\ RzEnlarged => rz_out.interpolation = "INTER_LANCZOS4"
        /\ RzShrunk => rz_out.interpolation = "INTER_AREA"

\* C7 (amended): Lanczos exactly when the scale factor is greater than 1
\* (the upscale argument of upscale_image; size / min(H, W) in fix_resize),
\* area-average otherwise, whatever min_size and the rounding to
\* unit_resolution then do to the output size.
C7_ByFactor ==
    RzDone =>
        LET lanczos ==
                IF rz_out.fn = "upscale_image"
                THEN rz_out.upscale.n > rz_out.upscale.d
                ELSE rz_out.call.size > IntMin(input_image.H, input_image.W)
        IN  rz_out.interpolation =
                IF lanczos THEN "INTER_LANCZOS4" ELSE "INTER_AREA"

\* C7 witness: upscale_image with upscale <= 1 and a min_size enlarged the
\* image and used area-average interpolation.
C7_Witness ==
    /\ RzDone
    /\ rz_out.fn = "upscale_image"
    /\ rz_out.call.min_size # None
    /\ RzEnlarged
    /\ rz_out.interpolation = "INTER_AREA"

----------------------------------------------------------------------------
(* HWC3: C6.                                                               *)

Hwc4 == x.dtype = "uint8" /\ x.ndim = 3 /\ x.C = 4 /\ y.status # "none"

AlphaEverywhere(a) == \A i \in DOMAIN x.px : x.px[i][4] = a

\* C6: for a uint8 4-channel array, alpha = 0 everywhere gives pure white
\* at every pixel whatever the colours, alpha = 255 everywhere gives the
\* three colour channels unchanged; the result has shape (H, W, 3).
C6_AlphaExtremes ==
    (Hwc4 /\ (AlphaEverywhere(0) \/ AlphaEverywhere(255))) =>
        /\ y.status = "ok"
        /\ y.arr.H = x.H /\ y.arr.W = x.W /\ y.arr.C = 3 /\ y.arr.ndim = 3
        /\ DOMAIN y.arr.px = DOMAIN x.px
        /\ AlphaEverywhere(0) =>
              \A i \in DOMAIN x.px : y.arr.px[i] = <<255, 255, 255>>
        /\ AlphaEverywhere(255) =>
              \A i \in DOMAIN x.px : y.arr.px[i] = SubSeq(x.px[i], 1, 3)

\* C6 witness: a two-pixel array of non-white colours with alpha = 0
\* everywhere has been converted.
C6_Witness ==
    /\ Hwc4 /\ y.status = "ok"
    /\ AlphaEverywhere(0)
    /\ Cardinality(DOMAIN x.px) = 2
    /\ \A i \in DOMAIN x.px : x.px[i][1] = 7

----------------------------------------------------------------------------
(* load_state_dict: C8.                                                    *)

\* C8 (as claimed): for the safetensors extension load_state_dict returns
\* exactly the flat mapping read from the file, and for any other extension
\* the container with at most one level of 'state_dict' wrapper removed.
C8_Original ==
    lsd_ret.status # "none" =>
        /\ lsd_ret.status = "ok"
        /\ lsd_ret.state_dict =
              IF IsSafetensors(ckpt_path) THEN ckpt_file
              ELSE IF "state_dict" \in DOMAIN ckpt_file.items
                   THEN ckpt_file.items["state_dict"]
                   ELSE ckpt_file

----------------------------------------------------------------------------
(* create_SUPIR_model: C2, C3, C10.                                        *)

\* The positions in the trace of the call op made for of.
Idx(op, of) == {i \in DOMAIN events : events[i] = Event(op, of)}

Happened(op, of) == Idx(op, of) # {}

Missing(path) == path = NoPath \/ path \notin DOMAIN fs

\* C2 (as claimed): when the assertion on supir_sign fails, no configuration
\* file has been read, no model instantiated and no checkpoint load
\* attempted.
C2_Original ==
    (csm_pc = "raised" /\ csm_ret.status = "AssertionError") =>
        /\ ~config.loaded
        /\ ~model.instantiated
        /\ ~Happened("OmegaConf.load", csm_args.config_path)
        /\ ~Happened("load_to_device", "primary")
        /\ ~Happened("load_to_device", "aux")

\* The path load_to_device was called with, for the primary and the
\* tag-selected auxiliary checkpoint.
PathOf(of) ==
    IF of = "primary" THEN config.SDXL_CKPT ELSE AuxPath(csm_args.supir_sign)

\* C3 (as claimed): for the primary and for the auxiliary checkpoint, when
\* the path is absent, empty or names no file, no state dictionary is read,
\* nothing is loaded into the model, 'No checkpoint found' is logged, no
\* error is raised and the call goes on to return the model.
C3_Original ==
    \A of \in {"primary", "aux"} :
        (Happened("load_to_device", of) /\ Missing(PathOf(of))) =>
            /\ ~Happened("load_state_dict", of)
            /\ ~Happened("model.load_state_dict", of)
            /\ \E i \in DOMAIN log :
                  log[i] = Line("No checkpoint found at", PathOf(of))
            /\ csm_pc # "raised"

Before(is, js) == \A i \in is, j \in js : i < j

\* C10: the sampler target, and the checkpoint override when ckpt is given,
\* are written before the model is instantiated; the primary load is
\* attempted after instantiation and before the auxiliary one; each is
\* attempted at most once; the auxiliary one only for supir_sign 'F' or
\* 'Q'; auxiliary weights go on top of primary weights.
C10_StepOrder ==
    LET inst == Idx("instantiate_from_config", NoPath)
        prim == Idx("load_to_device", "primary")
        aux == Idx("load_to_device", "aux")
    IN  /\ inst # {} =>
              /\ Happened("set_target", NoPath)
              /\ model.sampler_target = csm_args.sampler
              /\ csm_args.ckpt # NoPath =>
                    Happened("set_SDXL_CKPT", csm_args.ckpt)
        /\ Before(Idx("set_target", NoPath), inst)
        /\ Before(Idx("set_SDXL_CKPT", csm_args.ckpt), inst)
        /\ prim # {} => inst # {}
        /\ Before(inst, prim)
        /\ aux # {} => prim # {}
        /\ Before(prim, aux)
        /\ Cardinality(prim) <= 1
        /\ Cardinality(aux) <= 1
        /\ aux # {} => csm_args.supir_sign \in {"F", "Q"}
        /\ Before(Idx("model.load_state_dict", "primary"),
                  Idx("model.load_state_dict", "aux"))
        /\ Happened("model.load_state_dict", "aux") =>
              model.weights["weight"] =
                  fs[AuxPath(csm_args.supir_sign)].items["weight"]

\* C10 witness: a call with ckpt and supir_sign = 'F' returned after loading
\* the primary and then the auxiliary checkpoint.
C10_Witness ==
    /\ csm_pc = "returned"
    /\ csm_args.supir_sign = "F" /\ csm_args.ckpt = CustomPath
    /\ Happened("model.load_state_dict", "primary")
    /\ Happened("model.load_state_dict", "aux")
    /\ model.weights["weight"] = Tensor("v0F_weight")
    /\ model.weights["bias"] = Tensor("custom_bias")
    /\ model.weights["control"] = Tensor("init")

====
